---------------------------- MODULE Spec2Model ----------------------------
(***************************************************************************)
(* Model of the social-caption-generator action handlers                  *)
(* (src/unnamed/part_000) over the three tables of src/db/tables.ts.       *)
(*                                                                         *)
(* A table is the set of its rows (records).  A handler is an operator     *)
(* from the store, the caller and the input to an outcome: the error code  *)
(* or "OK", the rows handed back, the number of store statements issued    *)
(* and the tables afterwards.  The handlers keep nothing between calls:    *)
(* the state is the three tables.  Spec runs one handler per step          *)
(* (requests served one after the other); ConcSpec runs the caption        *)
(* handlers one store statement per step, so that invocations interleave.  *)
(***************************************************************************)
EXTENDS Integers, Sequences, FiniteSets, TLC

\* JavaScript undefined / SQL NULL: an absent input field, an unset column.
NULL == "<null>"

\* ------------------------------------------------------------------ bounds
\* Readings of the wall clock (new Date()): every reading is later than the
\* one before, and a handler that would read it past MaxClock is not started.
\* An insert reads the clock once, so this also bounds the rows ever inserted.
MaxClock == 3
\* In-flight handler invocations of ConcSpec.
MaxProcs == 2

\* ------------------------------------------------------- input value sets
\* Authenticated users (context.locals.user.id).
Users == {"u1", "u2"}
\* The caller of a request: a user, or NULL when nobody is signed in.
Callers == Users \cup {NULL}
\* An id no row has.
MissingId == "missing"

VARIABLES
    CaptionSessions,   \* table CaptionSessions: set of rows
    Captions,          \* table Captions: set of rows
    CaptionTemplates,  \* table CaptionTemplates: set of rows
    uuidCount,         \* number of ids crypto.randomUUID() has handed out
    now,               \* number of readings of the wall clock so far
    sessionCreator,    \* history: [id, user, at] of every session a create returned
    captionCreated,    \* history: [id, sessionId, at] of every caption a create returned
    captionDeleted,    \* history: [id, sessionId] of every successful delete
    procs              \* ConcSpec: the in-flight invocations, by slot

vars == <<CaptionSessions, Captions, CaptionTemplates, uuidCount, now,
          sessionCreator, captionCreated, captionDeleted, procs>>

tables == <<CaptionSessions, Captions, CaptionTemplates>>

\* ------------------------------------------------------- store predicates
\* astro:db's eq, and, or build SQL: a comparison with NULL is unknown, and
\* a WHERE clause keeps a row only when its condition is true.
eq(a, b) ==
    IF a = NULL \/ b = NULL THEN "unknown"
    ELSE IF a = b THEN "true" ELSE "false"

and_(p, q) ==
    IF p = "false" \/ q = "false" THEN "false"
    ELSE IF p = "true" /\ q = "true" THEN "true" ELSE "unknown"

or_(p, q) ==
    IF p = "true" \/ q = "true" THEN "true"
    ELSE IF p = "false" /\ q = "false" THEN "false" ELSE "unknown"

where(p) == p = "true"

\* JavaScript truthiness of a string-or-undefined value.
truthy(v) == v # NULL /\ v # ""

\* z.string().min(1)
zStringMin1(v) == v # NULL /\ v # ""

\* crypto.randomUUID(): a fresh, non-empty id.
randomUUID(n) == "id" \o ToString(n + 1)


\* ------------------------------------------------------------------ outcomes
\* A handler that threw ActionError `code` after `reads` selects and `writes`
\* insert/update/delete statements, leaving the tables S, C, T.
Fail(code, reads, writes, S, C, T) ==
    [code |-> code, rows |-> {}, total |-> NULL, reads |-> reads,
     writes |-> writes, sessions |-> S, captions |-> C, templates |-> T,
     uuids |-> 0, dates |-> 0]

\* A handler that returned { success: true, ... } with `rows` as its payload.
Done(rows, total, reads, writes, S, C, T, uuids, dates) ==
    [code |-> "OK", rows |-> rows, total |-> total, reads |-> reads,
     writes |-> writes, sessions |-> S, captions |-> C, templates |-> T,
     uuids |-> uuids, dates |-> dates]

\* ---------------------------------------------------------- identity, guards
\* requireUser: throws UNAUTHORIZED unless context.locals.user is set.
requireUser(user) == user # NULL

\* A faulty getOwnedSession select: by id alone, the owner is not compared.
getSessionById(S, sessionId, userId) ==
    {s \in S : where(eq(s.id, sessionId))}

\* getOwnedSession's select: the sessions with this id AND this owner.
getOwnedSession(S, sessionId, userId) ==
    {s \in S : where(and_(eq(s.id, sessionId), eq(s.userId, userId)))}

\* ensureTemplateAccessible: "OK", or the code of the ActionError it throws.
ensureTemplateAccessible(T, templateId, userId) ==
    LET found == {t \in T : where(eq(t.id, templateId))}
    IN  IF found = {} THEN "NOT_FOUND"
        ELSE LET template == CHOOSE t \in found : TRUE
             IN  IF truthy(template.userId) /\ template.userId # userId
                 THEN "FORBIDDEN" ELSE "OK"

\* ------------------------------------------------------------ session handlers
\* createCaptionSession's input schema.
validCreateCaptionSession(input) == zStringMin1(input.name)

createCaptionSession(S, C, T, n, t, user, input) ==
    IF ~validCreateCaptionSession(input) THEN Fail("BAD_REQUEST", 0, 0, S, C, T)
    ELSE IF ~requireUser(user) THEN Fail("UNAUTHORIZED", 0, 0, S, C, T)
    ELSE LET session == [id |-> randomUUID(n), userId |-> user,
                         name |-> input.name,
                         description |-> input.description,
                         coreMessage |-> input.coreMessage,
                         targetAudience |-> input.targetAudience,
                         createdAt |-> t, updatedAt |-> t]
         IN  Done({session}, NULL, 0, 1, S \cup {session}, C, T, 1, 1)

\* updateCaptionSession's input schema, with its refinement.
validUpdateCaptionSession(input) ==
    /\ zStringMin1(input.id)
    /\ input.name = NULL \/ zStringMin1(input.name)
    /\ \/ input.name # NULL
       \/ input.description # NULL
       \/ input.coreMessage # NULL
       \/ input.targetAudience # NULL

\* A faulty .set({...}): every column is written, an absent field as NULL.
setSessionWhole(s, t, input) ==
    [s EXCEPT !.name = IF input.name # NULL THEN input.name ELSE @,
              !.description = input.description,
              !.coreMessage = input.coreMessage,
              !.targetAudience = input.targetAudience,
              !.updatedAt = t]

\* The .set({...}) of updateCaptionSession applied to one row.
setSession(s, t, input) ==
    [s EXCEPT
       !.name = IF input.name # NULL THEN input.name ELSE @,
       !.description = IF input.description # NULL THEN input.description ELSE @,
       !.coreMessage = IF input.coreMessage # NULL THEN input.coreMessage ELSE @,
       !.targetAudience =
           IF input.targetAudience # NULL THEN input.targetAudience ELSE @,
       !.updatedAt = t]

\* The update statement of updateCaptionSession: the rows it rewrites.
updateSessionTarget(S, input) == {s \in S : where(eq(s.id, input.id))}

updateCaptionSession(S, C, T, n, t, user, input) ==
    IF ~validUpdateCaptionSession(input) THEN Fail("BAD_REQUEST", 0, 0, S, C, T)
    ELSE IF ~requireUser(user) THEN Fail("UNAUTHORIZED", 0, 0, S, C, T)
    ELSE IF getOwnedSession(S, input.id, user) = {}
         THEN Fail("NOT_FOUND", 1, 0, S, C, T)
    ELSE LET hit == updateSessionTarget(S, input)
             returning == {setSession(s, t, input) : s \in hit}
         IN  Done(returning, NULL, 1, 1, (S \ hit) \cup returning, C, T, 0, 1)

\* A faulty listCaptionSessions select: the where clause is left out.
selectSessionsOfAnyone(S, userId) == S

\* listCaptionSessions's select.
selectSessionsOf(S, userId) == {s \in S : where(eq(s.userId, userId))}

listCaptionSessions(S, C, T, n, t, user, input) ==
    IF ~requireUser(user) THEN Fail("UNAUTHORIZED", 0, 0, S, C, T)
    ELSE LET sessions == selectSessionsOf(S, user)
         IN  Done(sessions, Cardinality(sessions), 1, 0, S, C, T, 0, 0)


\* ------------------------------------------------------------ caption handlers
\* createCaption's input schema.
validCreateCaption(input) ==
    zStringMin1(input.sessionId) /\ zStringMin1(input.captionText)

\* The row createCaption inserts.
newCaption(n, t, input) ==
    [id |-> randomUUID(n), sessionId |-> input.sessionId,
     platform |-> input.platform, tone |-> input.tone,
     variantLabel |-> input.variantLabel, captionText |-> input.captionText,
     hashtags |-> input.hashtags, createdAt |-> t]

\* createCaption's template gate: "OK" when the handler goes on to insert.
templateGate(T, user, input) ==
    IF truthy(input.templateId)
    THEN ensureTemplateAccessible(T, input.templateId, user)
    ELSE "OK"

createCaption(S, C, T, n, t, user, input) ==
    IF ~validCreateCaption(input) THEN Fail("BAD_REQUEST", 0, 0, S, C, T)
    ELSE IF ~requireUser(user) THEN Fail("UNAUTHORIZED", 0, 0, S, C, T)
    ELSE IF getOwnedSession(S, input.sessionId, user) = {}
         THEN Fail("NOT_FOUND", 1, 0, S, C, T)
    ELSE LET gate == templateGate(T, user, input)
             looked == IF truthy(input.templateId) THEN 2 ELSE 1
         IN  IF gate # "OK" THEN Fail(gate, looked, 0, S, C, T)
             ELSE LET caption == newCaption(n, t, input)
                  IN  Done({caption}, NULL, looked, 1, S, C \cup {caption}, T, 1, 1)

\* A faulty updateCaption schema: the refinement is left out.
validUpdateCaptionUnrefined(input) ==
    zStringMin1(input.id) /\ zStringMin1(input.sessionId)

\* updateCaption's input schema, with its refinement.
validUpdateCaption(input) ==
    /\ zStringMin1(input.id)
    /\ zStringMin1(input.sessionId)
    /\ \/ input.platform # NULL
       \/ input.tone # NULL
       \/ input.variantLabel # NULL
       \/ input.captionText # NULL
       \/ input.hashtags # NULL

\* A faulty caption lookup: by id alone, whatever session the request names.
selectCaptionById(C, input) == {c \in C : where(eq(c.id, input.id))}

\* updateCaption's lookup of the caption: by id AND sessionId.
selectExistingCaption(C, input) ==
    {c \in C : where(and_(eq(c.id, input.id), eq(c.sessionId, input.sessionId)))}

\* The .set({...}) of updateCaption applied to one row.
setCaption(c, input) ==
    [c EXCEPT
       !.platform = IF input.platform # NULL THEN input.platform ELSE @,
       !.tone = IF input.tone # NULL THEN input.tone ELSE @,
       !.variantLabel = IF input.variantLabel # NULL THEN input.variantLabel ELSE @,
       !.captionText = IF input.captionText # NULL THEN input.captionText ELSE @,
       !.hashtags = IF input.hashtags # NULL THEN input.hashtags ELSE @]

\* The update statement of updateCaption: the rows it rewrites (by id alone).
updateCaptionTarget(C, input) == {c \in C : where(eq(c.id, input.id))}

updateCaption(S, C, T, n, t, user, input) ==
    IF ~validUpdateCaption(input) THEN Fail("BAD_REQUEST", 0, 0, S, C, T)
    ELSE IF ~requireUser(user) THEN Fail("UNAUTHORIZED", 0, 0, S, C, T)
    ELSE IF getOwnedSession(S, input.sessionId, user) = {}
         THEN Fail("NOT_FOUND", 1, 0, S, C, T)
    ELSE IF selectExistingCaption(C, input) = {}
         THEN Fail("NOT_FOUND", 2, 0, S, C, T)
    ELSE LET hit == updateCaptionTarget(C, input)
             returning == {setCaption(c, input) : c \in hit}
         IN  Done(returning, NULL, 2, 1, S, (C \ hit) \cup returning, T, 0, 0)

\* deleteCaption's input schema.
validDeleteCaption(input) == zStringMin1(input.id) /\ zStringMin1(input.sessionId)

\* The delete statement of deleteCaption: the rows it removes.
deleteCaptionTarget(C, input) ==
    {c \in C : where(and_(eq(c.id, input.id), eq(c.sessionId, input.sessionId)))}

deleteCaption(S, C, T, n, t, user, input) ==
    IF ~validDeleteCaption(input) THEN Fail("BAD_REQUEST", 0, 0, S, C, T)
    ELSE IF ~requireUser(user) THEN Fail("UNAUTHORIZED", 0, 0, S, C, T)
    ELSE IF getOwnedSession(S, input.sessionId, user) = {}
         THEN Fail("NOT_FOUND", 1, 0, S, C, T)
    ELSE LET hit == deleteCaptionTarget(C, input)
             rowsAffected == Cardinality(hit)
         IN  IF rowsAffected = 0 THEN Fail("NOT_FOUND", 1, 1, S, C \ hit, T)
             ELSE Done({}, NULL, 1, 1, S, C \ hit, T, 0, 0)

\* listCaptions's input schema.
validListCaptions(input) == zStringMin1(input.sessionId)

\* A faulty listCaptions select: the where clause is left out.
selectAllCaptions(C, sessionId) == C

\* listCaptions's select.
selectCaptionsOf(C, sessionId) == {c \in C : where(eq(c.sessionId, sessionId))}

listCaptions(S, C, T, n, t, user, input) ==
    IF ~validListCaptions(input) THEN Fail("BAD_REQUEST", 0, 0, S, C, T)
    ELSE IF ~requireUser(user) THEN Fail("UNAUTHORIZED", 0, 0, S, C, T)
    ELSE IF getOwnedSession(S, input.sessionId, user) = {}
         THEN Fail("NOT_FOUND", 1, 0, S, C, T)
    ELSE LET captions == selectCaptionsOf(C, input.sessionId)
         IN  Done(captions, Cardinality(captions), 2, 0, S, C, T, 0, 0)

\* ----------------------------------------------------------- template handlers
\* createTemplate's input schema.
validCreateTemplate(input) == zStringMin1(input.name) /\ zStringMin1(input.body)

createTemplate(S, C, T, n, t, user, input) ==
    IF ~validCreateTemplate(input) THEN Fail("BAD_REQUEST", 0, 0, S, C, T)
    ELSE IF ~requireUser(user) THEN Fail("UNAUTHORIZED", 0, 0, S, C, T)
    ELSE LET template == [id |-> randomUUID(n), userId |-> user,
                          name |-> input.name, platform |-> input.platform,
                          tone |-> input.tone, body |-> input.body,
                          isSystem |-> FALSE, createdAt |-> t]
         IN  Done({template}, NULL, 0, 1, S, C, T \cup {template}, 1, 1)

\* listTemplates's select: userId = <user> OR userId = NULL.
selectTemplatesOf(T, userId) ==
    {tp \in T : where(or_(eq(tp.userId, userId), eq(tp.userId, NULL)))}

listTemplates(S, C, T, n, t, user, input) ==
    IF ~requireUser(user) THEN Fail("UNAUTHORIZED", 0, 0, S, C, T)
    ELSE LET templates == selectTemplatesOf(T, user)
         IN  Done(templates, Cardinality(templates), 1, 0, S, C, T, 0, 0)


\* ---------------------------------------------------------------------- inputs
\* The ids a request may name: those of the rows of a table, and one of no row.
IdsOf(rows) == {r.id : r \in rows} \cup {MissingId}

\* Each handler's requests are a plain request and that request with one part
\* changed at a time: a required text left empty, the optional texts supplied,
\* each field of an update supplied alone, no field supplied.
PlainSession ==
    [name |-> "n1", description |-> NULL, coreMessage |-> NULL,
     targetAudience |-> NULL]

CreateCaptionSessionInputs ==
    { PlainSession,
      [PlainSession EXCEPT !.name = ""],
      [PlainSession EXCEPT !.description = "x", !.coreMessage = "x",
                           !.targetAudience = "x"] }

NoSessionField ==
    [name |-> NULL, description |-> NULL, coreMessage |-> NULL,
     targetAudience |-> NULL]

SessionPatches ==
    { NoSessionField,
      [NoSessionField EXCEPT !.name = ""],
      [NoSessionField EXCEPT !.name = "n2"],
      [NoSessionField EXCEPT !.coreMessage = "y"] }

UpdateCaptionSessionInputs ==
    { [id |-> i, name |-> f.name, description |-> f.description,
       coreMessage |-> f.coreMessage, targetAudience |-> f.targetAudience] :
      i \in IdsOf(CaptionSessions), f \in SessionPatches }

PlainCaption ==
    [platform |-> NULL, tone |-> NULL, variantLabel |-> NULL,
     captionText |-> "c1", hashtags |-> NULL, templateId |-> NULL]

CaptionBodies ==
    { PlainCaption,
      [PlainCaption EXCEPT !.captionText = ""],
      [PlainCaption EXCEPT !.platform = "x", !.tone = "x", !.variantLabel = "x",
                           !.hashtags = "x"] }
    \cup { [PlainCaption EXCEPT !.templateId = i] :
           i \in IdsOf(CaptionTemplates) \cup {""} }

CreateCaptionInputs ==
    { [sessionId |-> i, platform |-> f.platform, tone |-> f.tone,
       variantLabel |-> f.variantLabel, captionText |-> f.captionText,
       hashtags |-> f.hashtags, templateId |-> f.templateId] :
      i \in IdsOf(CaptionSessions), f \in CaptionBodies }

NoCaptionField ==
    [platform |-> NULL, tone |-> NULL, variantLabel |-> NULL,
     captionText |-> NULL, hashtags |-> NULL]

CaptionPatches ==
    { NoCaptionField,
      [NoCaptionField EXCEPT !.captionText = ""],
      [NoCaptionField EXCEPT !.tone = "y"] }

UpdateCaptionInputs ==
    { [id |-> i, sessionId |-> j, platform |-> f.platform, tone |-> f.tone,
       variantLabel |-> f.variantLabel, captionText |-> f.captionText,
       hashtags |-> f.hashtags] :
      i \in IdsOf(Captions), j \in IdsOf(CaptionSessions), f \in CaptionPatches }

DeleteCaptionInputs == [id : IdsOf(Captions), sessionId : IdsOf(CaptionSessions)]

ListCaptionsInputs == [sessionId : IdsOf(CaptionSessions)]

PlainTemplate == [name |-> "t1", platform |-> "x", tone |-> NULL, body |-> "b1"]

CreateTemplateInputs ==
    { PlainTemplate,
      [PlainTemplate EXCEPT !.name = ""],
      [PlainTemplate EXCEPT !.body = ""] }

\* listCaptionSessions and listTemplates take no input.
NoInput == [none |-> NULL]

\* ----------------------------------------------------------------------- state
\* A global template (userId null, see tables.ts): no handler inserts one, the
\* store is seeded with it.
SeedTemplate ==
    [id |-> "seed", userId |-> NULL, name |-> "t0", platform |-> NULL,
     tone |-> NULL, body |-> "b0", isSystem |-> TRUE, createdAt |-> 0]

Procs == 1..MaxProcs

Idle == [pc |-> "idle"]

Init ==
    /\ CaptionSessions = {}
    /\ Captions = {}
    /\ CaptionTemplates = {SeedTemplate}
    /\ uuidCount = 0
    /\ now = 0
    /\ sessionCreator = {}
    /\ captionCreated = {}
    /\ captionDeleted = {}
    /\ procs = [p \in Procs |-> Idle]

\* The histories after `user` was answered `o` to request `op`(input).
LogSessions(op, user, o) ==
    IF op = "createCaptionSession" /\ o.code = "OK"
    THEN sessionCreator
         \cup {[id |-> r.id, user |-> user, at |-> r.createdAt] : r \in o.rows}
    ELSE sessionCreator

LogCreated(op, input, o) ==
    IF op = "createCaption" /\ o.code = "OK"
    THEN captionCreated
         \cup {[id |-> r.id, sessionId |-> input.sessionId, at |-> r.createdAt] :
               r \in o.rows}
    ELSE captionCreated

LogDeleted(op, input, o) ==
    IF op = "deleteCaption" /\ o.code = "OK"
    THEN captionDeleted \cup {[id |-> input.id, sessionId |-> input.sessionId]}
    ELSE captionDeleted

\* One request served from start to end: the handler's outcome `o` takes effect.
Serve(op, user, input, o) ==
    /\ CaptionSessions' = o.sessions
    /\ Captions' = o.captions
    /\ CaptionTemplates' = o.templates
    /\ uuidCount' = uuidCount + o.uuids
    /\ now' = now + o.dates
    /\ sessionCreator' = LogSessions(op, user, o)
    /\ captionCreated' = LogCreated(op, input, o)
    /\ captionDeleted' = LogDeleted(op, input, o)
    /\ UNCHANGED procs

\* --------------------------------------------------------------------- actions
CreateCaptionSession ==
    /\ now < MaxClock
    /\ \E user \in Callers, input \in CreateCaptionSessionInputs :
         Serve("createCaptionSession", user, input,
               createCaptionSession(CaptionSessions, Captions, CaptionTemplates,
                                    uuidCount, now, user, input))

UpdateCaptionSession ==
    /\ now < MaxClock
    /\ \E user \in Callers, input \in UpdateCaptionSessionInputs :
         Serve("updateCaptionSession", user, input,
               updateCaptionSession(CaptionSessions, Captions, CaptionTemplates,
                                    uuidCount, now, user, input))

ListCaptionSessions ==
    \E user \in Callers, input \in {NoInput} :
        Serve("listCaptionSessions", user, input,
              listCaptionSessions(CaptionSessions, Captions, CaptionTemplates,
                                  uuidCount, now, user, input))

CreateCaption ==
    /\ now < MaxClock
    /\ \E user \in Callers, input \in CreateCaptionInputs :
         Serve("createCaption", user, input,
               createCaption(CaptionSessions, Captions, CaptionTemplates,
                             uuidCount, now, user, input))

UpdateCaption ==
    \E user \in Callers, input \in UpdateCaptionInputs :
        Serve("updateCaption", user, input,
              updateCaption(CaptionSessions, Captions, CaptionTemplates,
                            uuidCount, now, user, input))

DeleteCaption ==
    \E user \in Callers, input \in DeleteCaptionInputs :
        Serve("deleteCaption", user, input,
              deleteCaption(CaptionSessions, Captions, CaptionTemplates,
                            uuidCount, now, user, input))

ListCaptions ==
    \E user \in Callers, input \in ListCaptionsInputs :
        Serve("listCaptions", user, input,
              listCaptions(CaptionSessions, Captions, CaptionTemplates,
                           uuidCount, now, user, input))

CreateTemplate ==
    /\ now < MaxClock
    /\ \E user \in Callers, input \in CreateTemplateInputs :
         Serve("createTemplate", user, input,
               createTemplate(CaptionSessions, Captions, CaptionTemplates,
                              uuidCount, now, user, input))

ListTemplates ==
    \E user \in Callers, input \in {NoInput} :
        Serve("listTemplates", user, input,
              listTemplates(CaptionSessions, Captions, CaptionTemplates,
                            uuidCount, now, user, input))

Next ==
    \/ CreateCaptionSession
    \/ UpdateCaptionSession
    \/ ListCaptionSessions
    \/ CreateCaption
    \/ UpdateCaption
    \/ DeleteCaption
    \/ ListCaptions
    \/ CreateTemplate
    \/ ListTemplates

Spec == Init /\ [][Next]_vars


\* ------------------------------------------------ interleaved invocations
\* updateCaption and deleteCaption issue several store statements and hold no
\* transaction.  An invocation in slot p runs one statement per step:
\* pc says which statement is next, "done" that the handler has answered.
InFlight(op, user, input, pc) ==
    [pc |-> pc, op |-> op, user |-> user, input |-> input, code |-> NULL, rows |-> {}]

Answered(q, code, rows) == [q EXCEPT !.pc = "done", !.code = code, !.rows = rows]

\* The requests drawn for the interleaved invocations: they name stored rows,
\* and an update supplies the tone.
ConcUpdateCaptionInputs ==
    {input \in UpdateCaptionInputs :
        /\ input.id # MissingId /\ input.sessionId # MissingId
        /\ input.tone # NULL}

ConcDeleteCaptionInputs ==
    {input \in DeleteCaptionInputs :
        input.id # MissingId /\ input.sessionId # MissingId}

\* The request arrives: input validation and requireUser touch no table.
StartUpdateCaption(p) ==
    /\ procs[p].pc = "idle"
    /\ \E user \in Callers, input \in ConcUpdateCaptionInputs :
         LET q == InFlight("updateCaption", user, input, "session")
         IN  procs' = [procs EXCEPT ![p] =
                 IF ~validUpdateCaption(input) THEN Answered(q, "BAD_REQUEST", {})
                 ELSE IF ~requireUser(user) THEN Answered(q, "UNAUTHORIZED", {})
                 ELSE q]
    /\ UNCHANGED <<CaptionSessions, Captions, CaptionTemplates, uuidCount, now,
                   sessionCreator, captionCreated, captionDeleted>>

StartDeleteCaption(p) ==
    /\ procs[p].pc = "idle"
    /\ \E user \in Callers, input \in ConcDeleteCaptionInputs :
         LET q == InFlight("deleteCaption", user, input, "session")
         IN  procs' = [procs EXCEPT ![p] =
                 IF ~validDeleteCaption(input) THEN Answered(q, "BAD_REQUEST", {})
                 ELSE IF ~requireUser(user) THEN Answered(q, "UNAUTHORIZED", {})
                 ELSE q]
    /\ UNCHANGED <<CaptionSessions, Captions, CaptionTemplates, uuidCount, now,
                   sessionCreator, captionCreated, captionDeleted>>

\* await getOwnedSession(input.sessionId, user.id), in either handler.
StepGetOwnedSession(p) ==
    /\ procs[p].pc = "session"
    /\ LET q == procs[p]
       IN  procs' = [procs EXCEPT ![p] =
               IF getOwnedSession(CaptionSessions, q.input.sessionId, q.user) = {}
               THEN Answered(q, "NOT_FOUND", {})
               ELSE [q EXCEPT !.pc = IF q.op = "updateCaption"
                                     THEN "existing" ELSE "delete"]]
    /\ UNCHANGED <<CaptionSessions, Captions, CaptionTemplates, uuidCount, now,
                   sessionCreator, captionCreated, captionDeleted>>

\* updateCaption's select of the existing caption.
StepSelectExisting(p) ==
    /\ procs[p].pc = "existing"
    /\ LET q == procs[p]
       IN  procs' = [procs EXCEPT ![p] =
               IF selectExistingCaption(Captions, q.input) = {}
               THEN Answered(q, "NOT_FOUND", {})
               ELSE [q EXCEPT !.pc = "update"]]
    /\ UNCHANGED <<CaptionSessions, Captions, CaptionTemplates, uuidCount, now,
                   sessionCreator, captionCreated, captionDeleted>>

\* updateCaption's update ... returning, and its answer: the first row returned.
StepUpdate(p) ==
    /\ procs[p].pc = "update"
    /\ LET q == procs[p]
           hit == updateCaptionTarget(Captions, q.input)
           returning == {setCaption(c, q.input) : c \in hit}
       IN  /\ Captions' = (Captions \ hit) \cup returning
           /\ procs' = [procs EXCEPT ![p] = Answered(q, "OK", returning)]
    /\ UNCHANGED <<CaptionSessions, CaptionTemplates, uuidCount, now,
                   sessionCreator, captionCreated, captionDeleted>>

\* deleteCaption's delete, and its answer by rowsAffected.
StepDelete(p) ==
    /\ procs[p].pc = "delete"
    /\ LET q == procs[p]
           hit == deleteCaptionTarget(Captions, q.input)
       IN  /\ Captions' = Captions \ hit
           /\ procs' = [procs EXCEPT ![p] =
                  IF Cardinality(hit) = 0 THEN Answered(q, "NOT_FOUND", {})
                  ELSE Answered(q, "OK", {})]
           /\ captionDeleted' =
                  IF Cardinality(hit) = 0 THEN captionDeleted
                  ELSE captionDeleted
                       \cup {[id |-> q.input.id, sessionId |-> q.input.sessionId]}
    /\ UNCHANGED <<CaptionSessions, CaptionTemplates, uuidCount, now,
                   sessionCreator, captionCreated>>

\* The answer has gone to the caller: the slot is free again.
Return(p) ==
    /\ procs[p].pc = "done"
    /\ procs' = [procs EXCEPT ![p] = Idle]
    /\ UNCHANGED <<CaptionSessions, Captions, CaptionTemplates, uuidCount, now,
                   sessionCreator, captionCreated, captionDeleted>>

\* Sessions and captions come to be as in Spec; updateCaption and
\* deleteCaption invocations interleave statement by statement.
ConcNext ==
    \/ CreateCaptionSession
    \/ CreateCaption
    \/ \E p \in Procs : StartUpdateCaption(p)
    \/ \E p \in Procs : StartDeleteCaption(p)
    \/ \E p \in Procs : StepGetOwnedSession(p)
    \/ \E p \in Procs : StepSelectExisting(p)
    \/ \E p \in Procs : StepUpdate(p)
    \/ \E p \in Procs : StepDelete(p)
    \/ \E p \in Procs : Return(p)

ConcSpec == Init /\ [][ConcNext]_vars

\* ------------------------------------------------- the handlers, by name
Ops ==
    {"createCaptionSession", "updateCaptionSession", "listCaptionSessions",
     "createCaption", "updateCaption", "deleteCaption", "listCaptions",
     "createTemplate", "listTemplates"}

SessionScoped ==
    {"updateCaptionSession", "createCaption", "updateCaption", "deleteCaption",
     "listCaptions"}

\* The outcome of handler `op` called by `user` with `input` in the current state.
Handle(op, S, user, input) ==
    CASE op = "createCaptionSession" ->
           createCaptionSession(S, Captions, CaptionTemplates, uuidCount, now, user, input)
      [] op = "updateCaptionSession" ->
           updateCaptionSession(S, Captions, CaptionTemplates, uuidCount, now, user, input)
      [] op = "listCaptionSessions" ->
           listCaptionSessions(S, Captions, CaptionTemplates, uuidCount, now, user, input)
      [] op = "createCaption" ->
           createCaption(S, Captions, CaptionTemplates, uuidCount, now, user, input)
      [] op = "updateCaption" ->
           updateCaption(S, Captions, CaptionTemplates, uuidCount, now, user, input)
      [] op = "deleteCaption" ->
           deleteCaption(S, Captions, CaptionTemplates, uuidCount, now, user, input)
      [] op = "listCaptions" ->
           listCaptions(S, Captions, CaptionTemplates, uuidCount, now, user, input)
      [] op = "createTemplate" ->
           createTemplate(S, Captions, CaptionTemplates, uuidCount, now, user, input)
      [] op = "listTemplates" ->
           listTemplates(S, Captions, CaptionTemplates, uuidCount, now, user, input)

\* The inputs drawn for handler `op` in the current state.
InputsOf(op) ==
    CASE op = "createCaptionSession" -> CreateCaptionSessionInputs
      [] op = "updateCaptionSession" -> UpdateCaptionSessionInputs
      [] op = "createCaption" -> CreateCaptionInputs
      [] op = "updateCaption" -> UpdateCaptionInputs
      [] op = "deleteCaption" -> DeleteCaptionInputs
      [] op = "listCaptions" -> ListCaptionsInputs
      [] op = "createTemplate" -> CreateTemplateInputs
      [] OTHER -> {NoInput}

\* Whether `input` passes the input schema of handler `op`.
Valid(op, input) ==
    CASE op = "createCaptionSession" -> validCreateCaptionSession(input)
      [] op = "updateCaptionSession" -> validUpdateCaptionSession(input)
      [] op = "createCaption" -> validCreateCaption(input)
      [] op = "updateCaption" -> validUpdateCaption(input)
      [] op = "deleteCaption" -> validDeleteCaption(input)
      [] op = "listCaptions" -> validListCaptions(input)
      [] op = "createTemplate" -> validCreateTemplate(input)
      [] OTHER -> TRUE

\* The session a session-scoped request names.
SessionIdOf(op, input) == IF op = "updateCaptionSession" THEN input.id ELSE input.sessionId

\* What the caller sees of an outcome.
Reply(o) ==
    [code |-> o.code, rows |-> o.rows, total |-> o.total, reads |-> o.reads,
     writes |-> o.writes]

\* The outcome leaves the three tables as they are.
LeavesTables(o) ==
    /\ o.sessions = CaptionSessions
    /\ o.captions = Captions
    /\ o.templates = CaptionTemplates

\* ======================================================================
\* Claims
\* ======================================================================

\* C1: in every reachable state, listCaptionSessions called by user U succeeds
\* and returns exactly the stored sessions that U created (every session a
\* createCaptionSession of U returned is among them, none created by another
\* user is), and total is the number of items.
C1_ListSessionsExactlyOwn ==
    \A u \in Users :
        LET o == Handle("listCaptionSessions", CaptionSessions, u, NoInput)
            mine == {h.id : h \in {g \in sessionCreator : g.user = u}}
        IN  /\ o.code = "OK"
            /\ o.rows \subseteq CaptionSessions
            /\ {r.id : r \in o.rows} = mine
            /\ Cardinality(o.rows) = Cardinality(mine)
            /\ o.total = Cardinality(o.rows)

\* Both users have created sessions, so each one's list must leave some out.
C1_Witness ==
    /\ \E g, h \in sessionCreator : g.user = "u1" /\ h.user = "u2"
    /\ Handle("listCaptionSessions", CaptionSessions, "u1", NoInput).rows # {}
    /\ Handle("listCaptionSessions", CaptionSessions, "u1", NoInput).rows
         # CaptionSessions

\* C2: a session-scoped handler called by user U with the id of an existing
\* session owned by another user fails with NOT_FOUND, answers exactly as it
\* does when that session is not in the store, and leaves the tables unchanged.
C2_ForeignSessionIsNotFound ==
    \A op \in SessionScoped, u \in Users, s \in CaptionSessions :
        \A input \in InputsOf(op) :
            (s.userId # u /\ SessionIdOf(op, input) = s.id /\ Valid(op, input))
            => LET o == Handle(op, CaptionSessions, u, input)
                   absent == Handle(op, CaptionSessions \ {s}, u, input)
               IN  /\ o.code = "NOT_FOUND"
                   /\ Reply(o) = Reply(absent)
                   /\ LeavesTables(o)

\* A caption exists in a session of u1 and u2 asks to delete it by its ids.
C2_Witness ==
    \E s \in CaptionSessions, c \in Captions :
        /\ s.userId = "u1" /\ c.sessionId = s.id
        /\ Handle("deleteCaption", CaptionSessions, "u2",
                  [id |-> c.id, sessionId |-> s.id]).code = "NOT_FOUND"

\* C3: for a stored caption C, a well-formed updateCaption or deleteCaption of a
\* signed-in user that names C.id with a sessionId other than C's fails with
\* NOT_FOUND and leaves C (and the tables) as they were.
C3_WrongSessionLeavesCaption ==
    \A op \in {"updateCaption", "deleteCaption"}, u \in Users, c \in Captions :
        \A input \in InputsOf(op) :
            (input.id = c.id /\ input.sessionId # c.sessionId /\ Valid(op, input))
            => LET o == Handle(op, CaptionSessions, u, input)
               IN  /\ o.code = "NOT_FOUND"
                   /\ c \in o.captions
                   /\ LeavesTables(o)

\* The other session is one the caller owns: the session guard passes and
\* the caption lookup is what refuses.
C3_Witness ==
    \E c \in Captions, s \in CaptionSessions, input \in UpdateCaptionInputs :
        /\ s.id # c.sessionId
        /\ input.id = c.id /\ input.sessionId = s.id /\ input.tone = "y"
        /\ getOwnedSession(CaptionSessions, s.id, s.userId) # {}
        /\ Handle("updateCaption", CaptionSessions, s.userId, input).code = "NOT_FOUND"
        /\ Handle("updateCaption", CaptionSessions, s.userId, input).reads = 2


\* C4: createCaption by the owner of the session, with a templateId supplied
\* (any string the schema accepts), inserts a caption only if a template with
\* that id exists and is global or the caller's; it fails with NOT_FOUND when
\* no template has that id and with FORBIDDEN when the template is another
\* user's, inserting nothing in both cases.
C4_TemplateGate ==
    \A u \in Users, input \in CreateCaptionInputs :
        ( /\ Valid("createCaption", input)
          /\ getOwnedSession(CaptionSessions, input.sessionId, u) # {}
          /\ input.templateId # NULL )
        => LET o == Handle("createCaption", CaptionSessions, u, input)
               found == {tp \in CaptionTemplates : tp.id = input.templateId}
           IN  /\ (o.code = "OK" \/ o.captions # Captions)
                    => \E tp \in found : tp.userId = NULL \/ tp.userId = u
               /\ found = {} => (o.code = "NOT_FOUND" /\ LeavesTables(o))
               /\ (\E tp \in found : tp.userId # NULL /\ tp.userId # u)
                    => (o.code = "FORBIDDEN" /\ LeavesTables(o))

\* C5: listTemplates called by user U succeeds and returns exactly the stored
\* templates whose userId is U or null, and total is the number of items.
C5_ListTemplatesOwnAndGlobal ==
    \A u \in Users :
        LET o == Handle("listTemplates", CaptionSessions, u, NoInput)
        IN  /\ o.code = "OK"
            /\ o.rows = {tp \in CaptionTemplates : tp.userId = u \/ tp.userId = NULL}
            /\ o.total = Cardinality(o.rows)

\* C6: every stored caption has a non-empty captionText.
C6_CaptionTextNonEmpty ==
    \A c \in Captions : c.captionText # NULL /\ c.captionText # ""

\* C7: in every reachable state, listCaptions(sessionId) called by the owner of
\* the session succeeds and returns exactly the stored captions that were
\* created under that sessionId and not deleted since, with total their number;
\* captions of other sessions are not among them.
C7_ListCaptionsCreatedNotDeleted ==
    \A s \in CaptionSessions :
        LET o == Handle("listCaptions", CaptionSessions, s.userId, [sessionId |-> s.id])
            live == {h.id : h \in {g \in captionCreated :
                                       /\ g.sessionId = s.id
                                       /\ [id |-> g.id, sessionId |-> g.sessionId]
                                            \notin captionDeleted}}
        IN  /\ o.code = "OK"
            /\ o.rows \subseteq Captions
            /\ \A r \in o.rows : r.sessionId = s.id
            /\ {r.id : r \in o.rows} = live
            /\ Cardinality(o.rows) = Cardinality(live)
            /\ o.total = Cardinality(o.rows)

\* A session that had two captions created and one of them deleted.
C7_Witness ==
    \E s \in CaptionSessions, g, h \in captionCreated :
        /\ g.sessionId = s.id /\ h.sessionId = s.id
        /\ [id |-> g.id, sessionId |-> g.sessionId] \in captionDeleted
        /\ [id |-> h.id, sessionId |-> h.sessionId] \notin captionDeleted
        /\ Handle("listCaptions", CaptionSessions, s.userId,
                  [sessionId |-> s.id]).total = 1

\* C8: a handler invocation that ends in an error leaves the three tables as
\* they were (and has generated no id); an updateCaptionSession or
\* updateCaption with no updatable field is rejected with no store statement
\* issued; a well-formed call with nobody signed in fails with UNAUTHORIZED
\* with no store statement issued.
C8_ErrorsLeaveNoTrace ==
    \A op \in Ops, u \in Callers :
        \A input \in InputsOf(op) :
            LET o == Handle(op, CaptionSessions, u, input)
            IN  /\ o.code # "OK" => (LeavesTables(o) /\ o.uuids = 0)
                /\ ( /\ op = "updateCaptionSession"
                     /\ input.name = NULL /\ input.description = NULL
                     /\ input.coreMessage = NULL /\ input.targetAudience = NULL )
                   => (o.code = "BAD_REQUEST" /\ o.reads = 0 /\ o.writes = 0)
                /\ ( /\ op = "updateCaption"
                     /\ input.platform = NULL /\ input.tone = NULL
                     /\ input.variantLabel = NULL /\ input.captionText = NULL
                     /\ input.hashtags = NULL )
                   => (o.code = "BAD_REQUEST" /\ o.reads = 0 /\ o.writes = 0)
                /\ (u = NULL /\ Valid(op, input))
                   => (o.code = "UNAUTHORIZED" /\ o.reads = 0 /\ o.writes = 0)

\* A caption exists; its owner sends an updateCaption with no field, and a
\* deleteCaption of a caption id no row has (the delete statement is issued).
C8_Witness ==
    \E s \in CaptionSessions, c \in Captions :
        /\ c.sessionId = s.id
        /\ Handle("updateCaption", CaptionSessions, s.userId,
                  [id |-> c.id, sessionId |-> s.id, platform |-> NULL,
                   tone |-> NULL, variantLabel |-> NULL, captionText |-> NULL,
                   hashtags |-> NULL]).code = "BAD_REQUEST"
        /\ Handle("deleteCaption", CaptionSessions, s.userId,
                  [id |-> MissingId, sessionId |-> s.id]).writes = 1
        /\ Handle("deleteCaption", CaptionSessions, s.userId,
                  [id |-> MissingId, sessionId |-> s.id]).code = "NOT_FOUND"

\* The value a column holds after an update that may supply it.
Patched(old, supplied) == IF supplied # NULL THEN supplied ELSE old

\* C9: a successful updateCaptionSession (updateCaption) rewrites exactly the
\* row it names: the fields the request supplies take the supplied values,
\* every other field keeps its value (updatedAt of a session aside), id,
\* userId (sessionId) and createdAt stay, the payload is the rewritten row and
\* every other row of every table is as before.  After any sequence of
\* handlers, a stored row has the id, userId (sessionId) and createdAt it was
\* created with, and no other row has its id.
C9_UpdateFrame ==
    /\ \A u \in Users, input \in UpdateCaptionSessionInputs :
         LET o == Handle("updateCaptionSession", CaptionSessions, u, input)
         IN  o.code = "OK" =>
               \E s \in CaptionSessions, s2 \in o.sessions :
                 /\ s.id = input.id /\ s2.id = s.id
                 /\ s2.userId = s.userId /\ s2.createdAt = s.createdAt
                 /\ s2.name = Patched(s.name, input.name)
                 /\ s2.description = Patched(s.description, input.description)
                 /\ s2.coreMessage = Patched(s.coreMessage, input.coreMessage)
                 /\ s2.targetAudience = Patched(s.targetAudience, input.targetAudience)
                 /\ o.sessions = (CaptionSessions \ {s}) \cup {s2}
                 /\ o.rows = {s2}
                 /\ o.captions = Captions /\ o.templates = CaptionTemplates
    /\ \A u \in Users, input \in UpdateCaptionInputs :
         LET o == Handle("updateCaption", CaptionSessions, u, input)
         IN  o.code = "OK" =>
               \E c \in Captions, c2 \in o.captions :
                 /\ c.id = input.id /\ c2.id = c.id
                 /\ c2.sessionId = c.sessionId /\ c2.createdAt = c.createdAt
                 /\ c2.platform = Patched(c.platform, input.platform)
                 /\ c2.tone = Patched(c.tone, input.tone)
                 /\ c2.variantLabel = Patched(c.variantLabel, input.variantLabel)
                 /\ c2.captionText = Patched(c.captionText, input.captionText)
                 /\ c2.hashtags = Patched(c.hashtags, input.hashtags)
                 /\ o.captions = (Captions \ {c}) \cup {c2}
                 /\ o.rows = {c2}
                 /\ o.sessions = CaptionSessions /\ o.templates = CaptionTemplates
    /\ \A s \in CaptionSessions :
         /\ \E h \in sessionCreator :
              h.id = s.id /\ h.user = s.userId /\ h.at = s.createdAt
         /\ \A s2 \in CaptionSessions : s2.id = s.id => s2 = s
    /\ \A c \in Captions :
         /\ \E h \in captionCreated :
              h.id = c.id /\ h.sessionId = c.sessionId /\ h.at = c.createdAt
         /\ \A c2 \in Captions : c2.id = c.id => c2 = c

\* A session whose optional texts are set has its name alone updated, and a
\* caption whose optional texts are set has its tone alone updated.
C9_Witness ==
    /\ \E s \in CaptionSessions :
         /\ s.description = "x"
         /\ Handle("updateCaptionSession", CaptionSessions, s.userId,
                   [NoSessionField EXCEPT !.name = "n2"] @@ [id |-> s.id]).code = "OK"
    /\ \E c \in Captions, s \in CaptionSessions :
         /\ c.sessionId = s.id /\ c.platform = "x"
         /\ Handle("updateCaption", CaptionSessions, s.userId,
                   [NoCaptionField EXCEPT !.tone = "y"]
                   @@ [id |-> c.id, sessionId |-> s.id]).code = "OK"


\* C10: under any interleaving, an updateCaption that answers success has
\* updated a caption with the id and sessionId of its request, and its payload
\* is that caption.
C10_UpdateSuccessHasCaption ==
    \A p \in Procs :
        (procs[p].pc = "done" /\ procs[p].op = "updateCaption" /\ procs[p].code = "OK")
        => \E r \in procs[p].rows :
             /\ r.id = procs[p].input.id
             /\ r.sessionId = procs[p].input.sessionId

=============================================================================
